---- MODULE Spec2Model ----
(***************************************************************************)
(* Debate view of decision-copilot: the live audio queue                   *)
(* (useLiveAudioQueue), the round stream merger (DebateView) and the       *)
(* StandaloneDebateView that feeds both with the isDebating flag.          *)
(***************************************************************************)
EXTENDS Integers, Sequences, FiniteSets, TLC

(* ---------------- bounds of the model ---------------- *)
MaxIdx == 1
MaxTimers == 1
MaxSteps == 3

(* ---------------- input sets ---------------- *)
Decisions == {"d1", "d2"}
Indices == 0..MaxIdx
MaxPtr == MaxIdx + 1
SegAgents == {"a"}
NoSrc == -1
NoAgent == "null"
NoSegment == [index |-> -1, agent |-> NoAgent]
NoStart == -1

VARIABLES
  decisionId,            \* prop: the active decision
  isDebating,            \* StandaloneDebateView state
  hookIsDebating,        \* isDebating as of the last committed render
  loadDecisionPending,   \* get_decision not yet resolved
  readySegments, failedSegments, nextToPlay, isPlayingRef, userPaused,
  currentSegmentIndex, currentAgent, currentSegment, isPlaying,
  segmentsReady, nextSegmentIndex, maxReadySegmentIndex,
  audioSrc,              \* audio.src: index of the loaded segment, or NoSrc
  audioPhase,            \* "empty", "starting" / "resuming" (play() promise of tryPlayNext /
                         \* togglePause pending), "playing", "paused", "ended", "error"
  timers,                \* pending setTimeout(tryPlayNext) per captured isDebating
  maxStarted,            \* history: highest index started since the last reset
  script,                \* SpecScenario: segment events still to be delivered
  scenario,              \* SpecScenario: the script the run started with
  startLog,              \* SpecScenario history: every index started, in order
  lastOp,                \* history: class of the last event, callback or user operation,
                         \* whether its decision id matched, the index it started
  steps                  \* history: number of steps taken, used by SpecAll only

parentVars == <<decisionId, isDebating, hookIsDebating, loadDecisionPending>>
queueVars == <<readySegments, failedSegments, nextToPlay, isPlayingRef, userPaused,
               currentSegmentIndex, currentAgent, currentSegment, isPlaying,
               segmentsReady, nextSegmentIndex, maxReadySegmentIndex,
               audioSrc, audioPhase>>
audioVars == <<parentVars, queueVars, timers, maxStarted>>

Max(a, b) == IF a >= b THEN a ELSE b

(* The hook's refs, React state and audio element as one record. *)
Q ==
  [ready |-> readySegments, failed |-> failedSegments, nextToPlay |-> nextToPlay,
   isPlayingRef |-> isPlayingRef, userPaused |-> userPaused,
   currentSegmentIndex |-> currentSegmentIndex, currentAgent |-> currentAgent,
   currentSegment |-> currentSegment, isPlaying |-> isPlaying,
   segmentsReady |-> segmentsReady, nextSegmentIndex |-> nextSegmentIndex,
   maxReadySegmentIndex |-> maxReadySegmentIndex,
   audioSrc |-> audioSrc, audioPhase |-> audioPhase,
   maxStarted |-> maxStarted, start |-> NoStart, via |-> "none"]

SetQ(q) ==
  /\ readySegments' = q.ready
  /\ failedSegments' = q.failed
  /\ nextToPlay' = q.nextToPlay
  /\ isPlayingRef' = q.isPlayingRef
  /\ userPaused' = q.userPaused
  /\ currentSegmentIndex' = q.currentSegmentIndex
  /\ currentAgent' = q.currentAgent
  /\ currentSegment' = q.currentSegment
  /\ isPlaying' = q.isPlaying
  /\ segmentsReady' = q.segmentsReady
  /\ nextSegmentIndex' = q.nextSegmentIndex
  /\ maxReadySegmentIndex' = q.maxReadySegmentIndex
  /\ audioSrc' = q.audioSrc
  /\ audioPhase' = q.audioPhase
  /\ maxStarted' = q.maxStarted

Op(name, match, q) ==
  [op |-> name, match |-> match, start |-> q.start, via |-> q.via, ready |-> NoStart]
NoStartOp(name, match) ==
  [op |-> name, match |-> match, start |-> NoStart, via |-> "none", ready |-> NoStart]

setPlaybackIdle(q, clearCurrent) ==
  [q EXCEPT !.isPlayingRef = FALSE, !.isPlaying = FALSE,
            !.currentAgent = IF clearCurrent THEN NoAgent ELSE @,
            !.currentSegment = IF clearCurrent THEN NoSegment ELSE @]

skipFailed_None(q) == q

RECURSIVE skipFailed(_)
skipFailed(q) ==
  IF q.nextToPlay \in q.failed
  THEN skipFailed([q EXCEPT !.nextToPlay = @ + 1, !.nextSegmentIndex = q.nextToPlay + 1])
  ELSE q

(* audio.src = url; audio.load(); audio.play(); then the observability fields *)
startPlayback(q, idx) ==
  [q EXCEPT !.audioSrc = idx, !.audioPhase = "starting",
            !.isPlayingRef = TRUE, !.isPlaying = TRUE,
            !.currentSegmentIndex = idx,
            !.currentAgent = q.ready[idx],
            !.currentSegment = [index |-> idx, agent |-> q.ready[idx]],
            !.maxStarted = Max(@, idx), !.start = idx, !.via = "tryPlayNext"]

tryPlayNext_IgnorePause(q, debating) ==
  LET q1 == skipFailed(q)
  IN IF q1.nextToPlay \notin DOMAIN q1.ready
     THEN setPlaybackIdle(q1, ~debating)
     ELSE startPlayback(q1, q1.nextToPlay)

tryPlayNext(q, debating) ==
  IF q.userPaused THEN q
  ELSE LET q1 == skipFailed(q)
           idx == q1.nextToPlay
       IN IF idx \notin DOMAIN q1.ready
          THEN setPlaybackIdle(q1, ~debating)
          ELSE startPlayback(q1, idx)

Audible == {"starting", "resuming", "playing"}

NoTimers == [b \in BOOLEAN |-> 0]
TimerCount == timers[TRUE] + timers[FALSE]

(* handleEnded / handleError: idle, advance the pointer, arm the debounce timer *)
playbackFinished(q, debating, phase) ==
  LET q1 == setPlaybackIdle([q EXCEPT !.audioPhase = phase],
                            IF debating THEN FALSE ELSE TRUE)
  IN [q1 EXCEPT !.nextToPlay = @ + 1, !.nextSegmentIndex = q1.nextToPlay + 1]

handleEnded_NoTimer ==
  /\ audioPhase = "playing"
  /\ LET q == playbackFinished(Q, hookIsDebating, "ended")
     IN /\ SetQ(q)
        /\ lastOp' = Op("audio", TRUE, q)
  /\ UNCHANGED <<parentVars, timers>>

handleEnded ==
  /\ audioPhase = "playing"
  /\ LET q == playbackFinished(Q, hookIsDebating, "ended")
     IN /\ SetQ(q)
        /\ lastOp' = Op("audio", TRUE, q)
  /\ timers' = [timers EXCEPT ![hookIsDebating] = @ + 1]
  /\ UNCHANGED parentVars

handleError ==
  /\ audioPhase \in Audible
  /\ LET q == playbackFinished(Q, hookIsDebating, "error")
     IN /\ SetQ(q)
        /\ lastOp' = Op("audio", TRUE, q)
  /\ timers' = [timers EXCEPT ![hookIsDebating] = @ + 1]
  /\ UNCHANGED parentVars

(* the debounce timer fires: tryPlayNext of the render that armed it *)
TimerFire(debating) ==
  /\ timers[debating] > 0
  /\ timers' = [timers EXCEPT ![debating] = @ - 1]
  /\ LET q == tryPlayNext(Q, debating)
     IN /\ SetQ(q)
        /\ lastOp' = Op("audio", TRUE, q)
  /\ UNCHANGED parentVars

(* the promise of audio.play() settles *)
PlayResolved ==
  /\ audioPhase \in {"starting", "resuming"}
  /\ SetQ([Q EXCEPT !.audioPhase = "playing"])
  /\ lastOp' = NoStartOp("audio", TRUE)
  /\ UNCHANGED <<parentVars, timers>>

playRejected(q) ==
  LET q1 == [q EXCEPT !.audioPhase = "paused"]
  IN IF q.audioPhase = "starting" THEN setPlaybackIdle(q1, FALSE) ELSE q1

PlayRejected ==
  /\ audioPhase \in {"starting", "resuming"}
  /\ LET q == playRejected(Q)
     IN /\ SetQ(q)
        /\ lastOp' = Op("audio", TRUE, q)
  /\ UNCHANGED <<parentVars, timers>>

onSegmentReady_OnArrival(q, idx, agent, debating) ==
  LET q1 == [q EXCEPT !.ready = [i \in DOMAIN q.ready \cup {idx} |->
                                   IF i = idx THEN agent ELSE q.ready[i]],
                      !.segmentsReady = Cardinality(DOMAIN q.ready \cup {idx}),
                      !.maxReadySegmentIndex = Max(@, idx)]
  IN IF q1.userPaused THEN q1 ELSE startPlayback(q1, idx)

onSegmentReady(q, idx, agent, debating) ==
  LET q1 == [q EXCEPT !.ready = [i \in DOMAIN q.ready \cup {idx} |->
                                   IF i = idx THEN agent ELSE q.ready[i]],
                      !.segmentsReady = Cardinality(DOMAIN q.ready \cup {idx}),
                      !.maxReadySegmentIndex = Max(@, idx)]
  IN IF idx = q1.nextToPlay THEN tryPlayNext(q1, debating) ELSE q1

SegmentAudioReady_Unfiltered(d, idx, agent) ==
  /\ LET q == onSegmentReady(Q, idx, agent, hookIsDebating)
     IN /\ SetQ(q)
        /\ lastOp' = [Op("segment", d = decisionId, q) EXCEPT
                        !.ready = IF d = decisionId THEN idx ELSE NoStart]
  /\ UNCHANGED <<parentVars, timers>>

SegmentAudioReady(d, idx, agent) ==
  /\ LET q == IF d # decisionId THEN Q ELSE onSegmentReady(Q, idx, agent, hookIsDebating)
     IN /\ SetQ(q)
        /\ lastOp' = [Op("segment", d = decisionId, q) EXCEPT
                        !.ready = IF d = decisionId THEN idx ELSE NoStart]
  /\ UNCHANGED <<parentVars, timers>>

onSegmentError(q, idx, debating) ==
  LET q1 == [q EXCEPT !.failed = @ \cup {idx}]
  IN IF idx = q1.nextToPlay
     THEN tryPlayNext([q1 EXCEPT !.nextToPlay = @ + 1,
                                 !.nextSegmentIndex = q1.nextToPlay + 1], debating)
     ELSE q1

SegmentAudioError(d, idx) ==
  /\ LET q == IF d # decisionId THEN Q ELSE onSegmentError(Q, idx, hookIsDebating)
     IN /\ SetQ(q)
        /\ lastOp' = Op("segment", d = decisionId, q)
  /\ UNCHANGED <<parentVars, timers>>

(* the effect on [isDebating]: a full reset when the flag is set *)
resetQueue(q) ==
  LET q1 == setPlaybackIdle([q EXCEPT !.ready = <<>>, !.failed = {},
                                      !.nextToPlay = 0, !.userPaused = FALSE], TRUE)
  IN [q1 EXCEPT !.currentSegmentIndex = -1, !.segmentsReady = 0,
                !.nextSegmentIndex = 0, !.maxReadySegmentIndex = -1,
                !.maxStarted = -1]

(* the value the view hands to useLiveAudioQueue(decisionId, isDebating): the   *)
(* debating flag of the decision on screen                                       *)
liveAudioArgument == isDebating

(* React commits the render that a change of isDebating scheduled; the effect    *)
(* on [isDebating] runs only when the value changed                              *)
Render ==
  /\ liveAudioArgument # hookIsDebating
  /\ hookIsDebating' = liveAudioArgument
  /\ SetQ(IF liveAudioArgument THEN resetQueue(Q) ELSE Q)
  /\ lastOp' = IF lastOp.op = "debate-started" /\ lastOp.match
                THEN NoStartOp("debate-started", TRUE)
                ELSE NoStartOp("render", TRUE)
  /\ UNCHANGED <<decisionId, isDebating, loadDecisionPending, timers>>

resume(q) ==
  LET restart == q.audioPhase = "ended"
  IN [q EXCEPT !.audioPhase = IF @ \in {"error", "playing"} THEN @ ELSE "resuming",
               !.isPlayingRef = TRUE, !.isPlaying = TRUE,
               !.maxStarted = IF restart THEN Max(@, q.audioSrc) ELSE @,
               !.start = IF restart THEN q.audioSrc ELSE NoStart,
               !.via = IF restart THEN "resume" ELSE "none"]

togglePause(q, debating) ==
  IF q.isPlayingRef
  THEN setPlaybackIdle([q EXCEPT !.audioPhase = IF @ \in Audible THEN "paused" ELSE @,
                                 !.userPaused = TRUE], FALSE)
  ELSE LET q1 == [q EXCEPT !.userPaused = FALSE]
       IN IF q1.audioSrc # NoSrc THEN resume(q1) ELSE tryPlayNext(q1, debating)

TogglePause ==
  /\ LET q == togglePause(Q, hookIsDebating)
     IN /\ SetQ(q)
        /\ lastOp' = Op("user", TRUE, q)
  /\ UNCHANGED <<parentVars, timers>>

stop_Reset(q) ==
  [resetQueue(q) EXCEPT !.audioPhase = "empty", !.audioSrc = NoSrc, !.userPaused = TRUE]

stop(q) ==
  setPlaybackIdle([q EXCEPT !.audioPhase = "empty", !.audioSrc = NoSrc,
                            !.userPaused = TRUE], TRUE)

Stop ==
  /\ LET q == stop(Q)
     IN /\ SetQ(q)
        /\ lastOp' = Op("user", TRUE, q)
  /\ UNCHANGED <<parentVars, timers>>

(* ---------------- StandaloneDebateView ---------------- *)
setIsDebating(d, name, value) ==
  /\ isDebating' = IF d = decisionId THEN value ELSE isDebating
  /\ lastOp' = NoStartOp(name, d = decisionId)
  /\ UNCHANGED <<decisionId, hookIsDebating, loadDecisionPending, queueVars, timers, maxStarted>>

DebateStarted(d) == setIsDebating(d, "debate-started", TRUE)
(* the debate-complete and the debate-error listener: setIsDebating(false) *)
ParentDebateEnded(d) == setIsDebating(d, "parent", FALSE)

loadDecision(debating) ==
  /\ loadDecisionPending
  /\ loadDecisionPending' = FALSE
  /\ isDebating' = debating
  /\ lastOp' = NoStartOp("parent", TRUE)
  /\ UNCHANGED <<decisionId, hookIsDebating, queueVars, timers, maxStarted>>


(* ---------------- DebateView: the round stream merger ---------------- *)
MaxEntries == 3
MaxTokens == 1

RoundKeys == {<<1, 1>>, <<2, 1>>, <<2, 2>>, <<99, 1>>}
Agents == {"a", "b"}
Tokens == {"x"}
Contents == {<<"y">>}
Cancelled == "Debate cancelled"
ErrorTexts == {Cancelled, "boom"}
NoError == "null"

VARIABLES
  rounds,              \* finalized DebateRoundData in arrival order
  streamingMessages,   \* the Record of streaming messages, in key insertion order
  currentRound,
  error,
  debateRunning,
  loadDebatePending,   \* get_debate not yet resolved
  seenRounds           \* history: round numbers carried by token / response events

mergerVars == <<rounds, streamingMessages, currentRound, error, debateRunning,
                loadDebatePending>>

Entry(r, e, a, c) == [round_number |-> r, exchange_number |-> e, agent |-> a, content |-> c]
SameKey(m, r, e, a) == m.round_number = r /\ m.exchange_number = e /\ m.agent = a
HasStreaming(sm, r, e, a) == \E i \in 1..Len(sm) : SameKey(sm[i], r, e, a)

RECURSIVE SelectSeqBy(_, _, _, _)
(* the entries of seq, in order, without those of key (r, e, a) *)
SelectSeqBy(seq, r, e, a) ==
  IF seq = <<>> THEN <<>>
  ELSE IF SameKey(Head(seq), r, e, a) THEN SelectSeqBy(Tail(seq), r, e, a)
       ELSE <<Head(seq)>> \o SelectSeqBy(Tail(seq), r, e, a)

(* { ...prev, [key]: { ..., content: (existing?.content || "") + token } } *)
appendToken(sm, r, e, a, token) ==
  IF HasStreaming(sm, r, e, a)
  THEN [i \in 1..Len(sm) |->
          IF SameKey(sm[i], r, e, a) THEN Entry(r, e, a, sm[i].content \o <<token>>)
          ELSE sm[i]]
  ELSE Append(sm, Entry(r, e, a, <<token>>))

TokenFits(sm, r, e, a) ==
  IF HasStreaming(sm, r, e, a)
  THEN \A i \in 1..Len(sm) : SameKey(sm[i], r, e, a) => Len(sm[i].content) < MaxTokens
  ELSE Len(rounds) + Len(sm) < MaxEntries

nextCurrentRound(current, round_number) == IF round_number # 99 THEN round_number ELSE 99

AgentToken(d, r, e, a, token) ==
  /\ d = decisionId => TokenFits(streamingMessages, r, e, a)
  /\ IF d # decisionId
     THEN UNCHANGED <<streamingMessages, currentRound, seenRounds>>
     ELSE /\ streamingMessages' = appendToken(streamingMessages, r, e, a, token)
          /\ currentRound' = nextCurrentRound(currentRound, r)
          /\ seenRounds' = seenRounds \cup {r}
  /\ lastOp' = NoStartOp("merger", d = decisionId)
  /\ UNCHANGED <<rounds, error, debateRunning, loadDebatePending, isDebating>>

finalContent_Accumulated(sm, r, e, a, content) ==
  IF HasStreaming(sm, r, e, a)
  THEN (CHOOSE m \in {sm[i] : i \in 1..Len(sm)} : SameKey(m, r, e, a)).content
  ELSE content

finalContent(sm, r, e, a, content) == content

AgentResponse(d, r, e, a, content) ==
  /\ d = decisionId =>
       \/ HasStreaming(streamingMessages, r, e, a)
       \/ Len(rounds) + Len(streamingMessages) < MaxEntries
  /\ IF d # decisionId
     THEN UNCHANGED <<streamingMessages, rounds, seenRounds>>
     ELSE /\ streamingMessages' = SelectSeqBy(streamingMessages, r, e, a)
          /\ rounds' = Append(rounds, Entry(r, e, a,
                                finalContent(streamingMessages, r, e, a, content)))
          /\ seenRounds' = seenRounds \cup {r}
  /\ lastOp' = NoStartOp("merger", d = decisionId)
  /\ UNCHANGED <<currentRound, error, debateRunning, loadDebatePending, isDebating>>

RoundComplete(d) ==
  /\ lastOp' = NoStartOp("merger", d = decisionId)
  /\ UNCHANGED <<mergerVars, seenRounds, isDebating>>

(* setDebateRunning(false); onDebateComplete() of StandaloneDebateView *)
DebateComplete(d) ==
  /\ debateRunning' = IF d = decisionId THEN FALSE ELSE debateRunning
  /\ isDebating' = IF d = decisionId THEN FALSE ELSE isDebating
  /\ lastOp' = NoStartOp("debate-complete", d = decisionId)
  /\ UNCHANGED <<rounds, streamingMessages, currentRound, error, loadDebatePending,
                 seenRounds>>

errorShown_Always(err, message) == message

errorShown(err, message) == IF message # Cancelled THEN message ELSE err

DebateError(d, message) ==
  /\ debateRunning' = IF d = decisionId THEN FALSE ELSE debateRunning
  /\ error' = IF d = decisionId THEN errorShown(error, message) ELSE error
  /\ lastOp' = NoStartOp("debate-error", d = decisionId)
  /\ UNCHANGED <<rounds, streamingMessages, currentRound, loadDebatePending, seenRounds,
                 isDebating>>

RECURSIVE MaxRound(_)
MaxRound(S) ==
  LET x == CHOOSE y \in S : TRUE
  IN IF S = {x} THEN x ELSE Max(x, MaxRound(S \ {x}))

StoredDebates ==
  { <<>>,
    <<Entry(1, 1, "a", <<"y">>)>>,
    <<Entry(1, 1, "a", <<"y">>), Entry(99, 1, "b", <<"y">>)>> }

loadDebate(data) ==
  /\ loadDebatePending
  /\ loadDebatePending' = FALSE
  /\ rounds' = data
  /\ IF Len(data) > 0
     THEN LET maxRound == MaxRound({data[i].round_number : i \in 1..Len(data)})
          IN /\ currentRound' = maxRound
             /\ debateRunning' = IF maxRound = 99 THEN FALSE ELSE debateRunning
     ELSE UNCHANGED <<currentRound, debateRunning>>
  /\ lastOp' = NoStartOp("merger", TRUE)
  /\ UNCHANGED <<streamingMessages, error, seenRounds, isDebating>>

(* cancel_debate resolved *)
handleCancel ==
  /\ debateRunning
  /\ debateRunning' = FALSE
  /\ lastOp' = NoStartOp("cancel", TRUE)
  /\ UNCHANGED <<rounds, streamingMessages, currentRound, error, loadDebatePending,
                 seenRounds, isDebating>>

(* App hands another decisionId to the mounted StandaloneDebateView: its effect  *)
(* on [decisionId] sets isDebating false and calls loadDecision, DebateView's     *)
(* effect calls loadDebate, the listeners are subscribed again for the new id;    *)
(* the refs, the state and the audio element of useLiveAudioQueue stay as they    *)
(* are (its audio effect has no dependency, its reset effect runs on isDebating)  *)
SelectDecision(d) ==
  /\ d # decisionId
  /\ decisionId' = d
  /\ isDebating' = FALSE
  /\ hookIsDebating' = FALSE
  /\ loadDecisionPending' = TRUE
  /\ loadDebatePending' = TRUE
  /\ lastOp' = NoStartOp("select", TRUE)
  /\ UNCHANGED <<queueVars, timers, maxStarted, rounds, streamingMessages, currentRound,
                 error, debateRunning, seenRounds>>

(* ---------------- the view: mergedGroups ---------------- *)
Group(r, e, entries, streaming) ==
  [roundNumber |-> r, exchangeNumber |-> e, entries |-> entries,
   streamingEntries |-> streaming]

SameGroup(m, r, e) == m.round_number = r /\ m.exchange_number = e

RECURSIVE streamingByRound(_, _, _)
streamingByRound(sm, r, e) ==
  IF sm = <<>> THEN <<>>
  ELSE IF SameGroup(Head(sm), r, e)
       THEN <<Head(sm)>> \o streamingByRound(Tail(sm), r, e)
       ELSE streamingByRound(Tail(sm), r, e)

RECURSIVE groupRounds_Prepend(_)
(* the mutant of groupRounds: an entry is put in front of its group *)
groupRounds_Prepend(rs) ==
  IF rs = <<>> THEN <<>>
  ELSE LET before == groupRounds_Prepend(SubSeq(rs, 1, Len(rs) - 1))
           r == rs[Len(rs)]
       IN IF before # <<>> /\ before[Len(before)].roundNumber = r.round_number
                           /\ before[Len(before)].exchangeNumber = r.exchange_number
          THEN [before EXCEPT ![Len(before)].entries = <<r>> \o @]
          ELSE Append(before, Group(r.round_number, r.exchange_number, <<r>>, <<>>))

RECURSIVE groupRounds(_)
groupRounds(rs) ==
  IF rs = <<>> THEN <<>>
  ELSE LET before == groupRounds(SubSeq(rs, 1, Len(rs) - 1))
           r == rs[Len(rs)]
       IN IF before # <<>> /\ before[Len(before)].roundNumber = r.round_number
                           /\ before[Len(before)].exchangeNumber = r.exchange_number
          THEN [before EXCEPT ![Len(before)].entries = Append(@, r)]
          ELSE Append(before, Group(r.round_number, r.exchange_number, <<r>>, <<>>))

RECURSIVE streamingOnly(_, _, _)
(* the groups of the streaming keys that no finalized group has, in key order *)
streamingOnly(sm, groups, all) ==
  IF sm = <<>> THEN <<>>
  ELSE LET m == Head(sm)
           known == \E i \in 1..Len(groups) :
                       /\ groups[i].roundNumber = m.round_number
                       /\ groups[i].exchangeNumber = m.exchange_number
           g == Group(m.round_number, m.exchange_number, <<>>,
                      streamingByRound(all, m.round_number, m.exchange_number))
       IN IF known THEN streamingOnly(Tail(sm), groups, all)
          ELSE <<g>> \o streamingOnly(Tail(sm), Append(groups, g), all)

compareGroups(a, b) ==
  IF a.roundNumber - b.roundNumber # 0 THEN a.roundNumber - b.roundNumber
  ELSE a.exchangeNumber - b.exchangeNumber

RECURSIVE insertGroup(_, _)
insertGroup(sorted, g) ==
  IF sorted = <<>> THEN <<g>>
  ELSE IF compareGroups(sorted[Len(sorted)], g) <= 0 THEN Append(sorted, g)
       ELSE Append(insertGroup(SubSeq(sorted, 1, Len(sorted) - 1), g), sorted[Len(sorted)])

sortGroups_None(gs) == gs

RECURSIVE sortGroups(_)
(* Array.prototype.sort with compareGroups: a stable sort *)
sortGroups(gs) ==
  IF gs = <<>> THEN <<>>
  ELSE insertGroup(sortGroups(SubSeq(gs, 1, Len(gs) - 1)), gs[Len(gs)])

mergedGroups ==
  LET groups == groupRounds(rounds)
      merged == [i \in 1..Len(groups) |->
                   [groups[i] EXCEPT !.streamingEntries =
                      streamingByRound(streamingMessages, groups[i].roundNumber,
                                       groups[i].exchangeNumber)]]
  IN sortGroups(merged \o streamingOnly(streamingMessages, groups, streamingMessages))

(* ============ video timeline (remotion/utils, VideoExportDialog) ============ *)
MaxSegments == 3

FPS == 30
ROUND_TRANSITION_DURATION_FRAMES == 60
NoRound == -1

FpsValues == {FPS, 60}
Durations == {0, 3000, 4000, 5000, 8300}
TimelineKeys == {<<1, 1>>, <<2, 1>>, <<2, 2>>}
AudioFile == "a.mp3"
ManifestSegments ==
  {[round |-> k[1], exchange |-> k[2], duration_ms |-> d, audio_file |-> AudioFile] :
     k \in TimelineKeys, d \in Durations}
Manifests == UNION {[1..n -> ManifestSegments] : n \in 0..MaxSegments}

VARIABLES
  manifest,          \* AudioManifest.segments handed to the export dialog
  fps,               \* VideoInputProps.fps
  videoPhase,        \* "idle", "preview" (player rendered), "export" (batch render done)
  previewTimeline,   \* buildTimeline(previewProps)
  previewTotal,      \* calculateTotalFrames(previewProps), 0 before the preview
  cliTimeline,       \* buildTimeline(cliProps)
  cliTotal           \* calculateTotalFrames(cliProps), 0 before the export

videoVars == <<manifest, fps, videoPhase, previewTimeline, previewTotal,
               cliTimeline, cliTotal>>

(* convertFileSrc: the asset-protocol URL of a local path *)
convertFileSrc(path) == [scheme |-> "asset", path |-> path]
staticPath(file) == [scheme |-> "", path |-> file]

VideoSegment(seg, i, audioFilePath) ==
  [index |-> i - 1, round |-> seg.round, exchange |-> seg.exchange,
   audioFilePath |-> audioFilePath, durationMs |-> seg.duration_ms]

previewSegments(m) ==
  [i \in 1..Len(m) |->
     VideoSegment(m[i], i, IF m[i].audio_file # "" THEN convertFileSrc(m[i].audio_file)
                           ELSE staticPath(""))]

cliSegments(m) ==
  [i \in 1..Len(m) |-> VideoSegment(m[i], i, staticPath(m[i].audio_file))]

(* the inputs for which the double (ms / 1000) * fps lies above the exact value *)
(* of ms * fps / 1000 (8.3 * 30 = 249.00000000000003, 8.3 * 60 = 498.00000000000006) *)
ProductRoundsUp == {<<8300, 30>>, <<8300, 60>>}

(* Math.ceil((ms / 1000) * fps) in IEEE-754 doubles *)
msToFrames(ms, f) ==
  LET exact == (ms * f + 999) \div 1000
  IN IF <<ms, f>> \in ProductRoundsUp /\ (ms * f) % 1000 = 0 THEN exact + 1 ELSE exact

NoVideoSegment ==
  [index |-> -1, round |-> NoRound, exchange |-> NoRound,
   audioFilePath |-> staticPath(""), durationMs |-> 0]

TransitionEntry_Short(startFrame, segment) ==
  [type |-> "transition", startFrame |-> startFrame,
   durationFrames |-> FPS, segment |-> NoVideoSegment,
   roundNumber |-> segment.round, exchangeNumber |-> segment.exchange]

TransitionEntry(startFrame, segment) ==
  [type |-> "transition", startFrame |-> startFrame,
   durationFrames |-> ROUND_TRANSITION_DURATION_FRAMES, segment |-> NoVideoSegment,
   roundNumber |-> segment.round, exchangeNumber |-> segment.exchange]

messageDuration_ByAudio(segment, f) ==
  IF segment.audioFilePath.scheme = "asset" THEN msToFrames(segment.durationMs, f) ELSE 0

messageDuration(segment, f) == msToFrames(segment.durationMs, f)

MessageEntry(startFrame, segment, f) ==
  [type |-> "message", startFrame |-> startFrame,
   durationFrames |-> messageDuration(segment, f), segment |-> segment,
   roundNumber |-> NoRound, exchangeNumber |-> NoRound]

RECURSIVE timelineLoop(_, _, _, _)
(* the for loop of buildTimeline from segment i on *)
timelineLoop(segments, i, f, st) ==
  IF i > Len(segments) THEN st
  ELSE LET segment == segments[i]
           changed == segment.round # st.lastRound \/ segment.exchange # st.lastExchange
           card == changed /\ st.lastRound # -1
           s1 == IF card
                 THEN [st EXCEPT !.entries = Append(@, TransitionEntry(st.currentFrame, segment)),
                                 !.currentFrame = @ + ROUND_TRANSITION_DURATION_FRAMES]
                 ELSE st
           s2 == IF changed
                 THEN [s1 EXCEPT !.lastRound = segment.round, !.lastExchange = segment.exchange]
                 ELSE s1
           msg == MessageEntry(s2.currentFrame, segment, f)
       IN timelineLoop(segments, i + 1, f,
                       [s2 EXCEPT !.entries = Append(@, msg),
                                  !.currentFrame = @ + msg.durationFrames])

buildTimeline(segments, f) ==
  timelineLoop(segments, 1, f,
               [entries |-> <<>>, currentFrame |-> 0, lastRound |-> -1,
                lastExchange |-> -1]).entries

calculateTotalFrames_DefaultFps(segments, f) ==
  LET timeline == buildTimeline(segments, f)
  IN IF Len(timeline) = 0 THEN 1
     ELSE timeline[Len(timeline)].startFrame + timeline[Len(timeline)].durationFrames + FPS

calculateTotalFrames_NoBuffer(segments, f) ==
  LET timeline == buildTimeline(segments, f)
  IN IF Len(timeline) = 0 THEN 1
     ELSE timeline[Len(timeline)].startFrame + timeline[Len(timeline)].durationFrames

calculateTotalFrames(segments, f) ==
  LET timeline == buildTimeline(segments, f)
  IN IF Len(timeline) = 0 THEN 1
     ELSE LET last == timeline[Len(timeline)]
          IN last.startFrame + last.durationFrames + f

(* the export dialog renders the preview player for previewProps *)
RenderPreview ==
  /\ videoPhase = "idle"
  /\ videoPhase' = "preview"
  /\ previewTimeline' = buildTimeline(previewSegments(manifest), fps)
  /\ previewTotal' = calculateTotalFrames(previewSegments(manifest), fps)
  /\ UNCHANGED <<manifest, fps, cliTimeline, cliTotal>>

(* the batch render evaluates the composition for the props of cliPropsJson *)
RenderExport ==
  /\ videoPhase = "preview"
  /\ videoPhase' = "export"
  /\ cliTimeline' = buildTimeline(cliSegments(manifest), fps)
  /\ cliTotal' = calculateTotalFrames(cliSegments(manifest), fps)
  /\ UNCHANGED <<manifest, fps, previewTimeline, previewTotal>>

InitVideoIdle ==
  /\ manifest = <<>>
  /\ fps = FPS
  /\ videoPhase = "idle"
  /\ previewTimeline = <<>>
  /\ previewTotal = 0
  /\ cliTimeline = <<>>
  /\ cliTotal = 0

(* ---------------- DebateProgressBar: the progress projector ---------------- *)
MaxExchange == 60
NoFixed == -1
RoundValues == {0, 1, 2, 3, 4, 99}
TotalRoundsValues == {2, 5, 100}
FixedValues == {NoFixed, 1, 2}

VARIABLES props, width

barVars == <<props, width>>

(* a percentage is kept as the exact fraction num / den, den > 0 *)
Frac(n, d) == [num |-> n, den |-> d]
FLeq(a, b) == a.num * b.den <= b.num * a.den
FLess(a, b) == a.num * b.den < b.num * a.den
FEq(a, b) == a.num * b.den = b.num * a.den
FMax(a, b) == IF FLeq(a, b) THEN b ELSE a
FMin(a, b) == IF FLeq(a, b) THEN a ELSE b

Props ==
  [currentRound : RoundValues, currentExchange : 1..MaxExchange,
   totalRounds : TotalRoundsValues, isRunning : BOOLEAN,
   moderatorDirected : BOOLEAN, fixedExchangeCount : FixedValues]

resolvedTotal(p) == Max(2, p.totalRounds)

currentStep(p) ==
  IF p.currentRound = 1 THEN 1
  ELSE IF p.currentRound = 2 THEN 1 + Max(1, p.currentExchange)
  ELSE IF p.currentRound = 3
    THEN (IF p.fixedExchangeCount # NoFixed THEN 1 + p.fixedExchangeCount + 1 ELSE 4)
  ELSE IF p.currentRound = 99 THEN resolvedTotal(p)
  ELSE IF resolvedTotal(p) <= Max(1, p.currentRound)
    THEN resolvedTotal(p) ELSE Max(1, p.currentRound)

(* the mutant of progress: the moderator-directed branch left out *)
progress_Linear(p) ==
  IF ~p.isRunning THEN Frac(100, 1)
  ELSE FMax(Frac(5, 1), Frac((currentStep(p) - 1) * 100, resolvedTotal(p)))

progress(p) ==
  IF ~p.isRunning THEN Frac(100, 1)
  ELSE IF p.moderatorDirected
    THEN FMax(Frac(6, 1),
              FMin(Frac(95, 1), Frac((currentStep(p) - 1) * 100, currentStep(p) + 2)))
  ELSE FMax(Frac(5, 1), Frac((currentStep(p) - 1) * 100, resolvedTotal(p)))

(* the bar that takes no exchange and no mode: progress from the round alone *)
progressByRound(p) ==
  IF p.isRunning
    THEN FMax(Frac(5, 1), Frac((p.currentRound - 1) * 100, p.totalRounds))
    ELSE Frac(100, 1)

(* the debate moves on: round 1, round 2 exchange 1, 2, ..., round 3, round 99;   *)
(* with a fixed exchange count round 2 has exactly that many exchanges            *)
NextPositions(p) ==
  IF p.currentRound = 1 THEN {<<2, 1>>}
  ELSE IF p.currentRound = 2
    THEN (IF p.fixedExchangeCount = NoFixed
            THEN {<<2, p.currentExchange + 1>>, <<3, 1>>}
            ELSE IF p.currentExchange < p.fixedExchangeCount
              THEN {<<2, p.currentExchange + 1>>} ELSE {<<3, 1>>})
  ELSE IF p.currentRound = 3 THEN {<<99, 1>>}
  ELSE {}

RoundAdvanced ==
  /\ props.isRunning
  /\ \E pos \in NextPositions(props) :
       /\ pos[2] <= MaxExchange
       /\ props' = [props EXCEPT !.currentRound = pos[1], !.currentExchange = pos[2]]
  /\ width' = progress(props')

RunEnded ==
  /\ props.isRunning
  /\ props' = [props EXCEPT !.isRunning = FALSE]
  /\ width' = progress(props')

InitBarIdle ==
  /\ props = [currentRound |-> 1, currentExchange |-> 1, totalRounds |-> 5,
              isRunning |-> FALSE, moderatorDirected |-> FALSE,
              fixedExchangeCount |-> NoFixed]
  /\ width = progress(props)

(* ---------------- event subscriptions of the components ---------------- *)
Owners == {"useLiveAudioQueue", "DebateView", "VideoExportDialog"}

EventsOf(o) ==
  CASE o = "useLiveAudioQueue" -> {"debate-segment-audio-ready", "debate-segment-audio-error"}
    [] o = "DebateView" -> {"debate-agent-token", "debate-agent-response",
                            "debate-round-complete", "debate-complete", "debate-error"}
    [] o = "VideoExportDialog" -> {"video-render-progress", "video-render-complete",
                                   "video-render-error"}

Listeners == UNION {{<<o, e>> : e \in EventsOf(o)} : o \in Owners}

VARIABLES
  listeners,     \* listen() of each listener: "pending", "subscribed", "released"
  cleanedUp,     \* the cleanup of the owner's effect has run
  unlisteners    \* the array of unlisten functions VideoExportDialog has collected

subVars == <<listeners, cleanedUp, unlisteners>>

(* the promise of listen() resolves with the unlisten function *)
ListenResolved(l) ==
  /\ listeners[l] = "pending"
  /\ IF l[1] = "VideoExportDialog"
     THEN /\ listeners' = [listeners EXCEPT ![l] = "subscribed"]
          /\ unlisteners' = unlisteners \cup {l}
     ELSE /\ listeners' = [listeners EXCEPT ![l] =
                              IF cleanedUp[l[1]] THEN "released" ELSE "subscribed"]
          /\ UNCHANGED unlisteners
  /\ UNCHANGED cleanedUp

(* the function an effect returns: unlistenX.then((fn) => fn()) for each listener *)
(* of the hook and of DebateView, unlisteners.forEach((u) => u()) in the dialog   *)
Cleanup(o) ==
  /\ ~cleanedUp[o]
  /\ cleanedUp' = [cleanedUp EXCEPT ![o] = TRUE]
  /\ listeners' =
       [l \in Listeners |->
          IF l[1] # o THEN listeners[l]
          ELSE IF o = "VideoExportDialog"
            THEN (IF l \in unlisteners THEN "released" ELSE listeners[l])
          ELSE IF listeners[l] = "subscribed" THEN "released" ELSE listeners[l]]
  /\ UNCHANGED unlisteners

(* the effects have run: every listen() is called and none has resolved *)
InitSubs ==
  /\ listeners = [l \in Listeners |-> "pending"]
  /\ cleanedUp = [o \in Owners |-> FALSE]
  /\ unlisteners = {}

(* ---------------- specifications ---------------- *)
InitQueue ==
  /\ readySegments = <<>>
  /\ failedSegments = {}
  /\ nextToPlay = 0
  /\ isPlayingRef = FALSE
  /\ userPaused = FALSE
  /\ currentSegmentIndex = -1
  /\ currentAgent = NoAgent
  /\ currentSegment = NoSegment
  /\ isPlaying = FALSE
  /\ segmentsReady = 0
  /\ nextSegmentIndex = 0
  /\ maxReadySegmentIndex = -1
  /\ audioSrc = NoSrc
  /\ audioPhase = "empty"
  /\ timers = NoTimers
  /\ maxStarted = -1

InitMerger ==
  /\ rounds = <<>>
  /\ streamingMessages = <<>>
  /\ currentRound = 1
  /\ error = NoError
  /\ debateRunning = isDebating
  /\ loadDebatePending = TRUE
  /\ seenRounds = {}

InitOp == NoStartOp("mount", TRUE)

scenarioVars == <<script, scenario, startLog>>
vars == <<audioVars, mergerVars, seenRounds, scenarioVars, lastOp, steps, videoVars, barVars, subVars>>

InitIdle ==
  /\ InitVideoIdle
  /\ InitBarIdle
  /\ InitSubs
  /\ script = <<>>
  /\ scenario = <<>>
  /\ startLog = <<>>
  /\ lastOp = InitOp
  /\ steps = 0

(* the caps that keep the pointer and the number of pending timers finite *)
Bounded == nextToPlay <= MaxPtr /\ TimerCount <= MaxTimers

(* events, callbacks and user operations of the audio queue for decision set D *)
AudioNext(D) ==
  \/ \E d \in D, i \in Indices, a \in SegAgents : SegmentAudioReady(d, i, a)
  \/ \E d \in D, i \in Indices : SegmentAudioError(d, i)
  \/ handleEnded
  \/ handleError
  \/ \E b \in BOOLEAN : TimerFire(b)
  \/ PlayResolved
  \/ PlayRejected
  \/ TogglePause
  \/ Stop
  \/ Render
  \/ \E d \in D : DebateStarted(d)
  \/ \E d \in D : ParentDebateEnded(d)

MergerNext(D) ==
  \/ \E d \in D, k \in RoundKeys, a \in Agents, t \in Tokens :
        AgentToken(d, k[1], k[2], a, t)
  \/ \E d \in D, k \in RoundKeys, a \in Agents, c \in Contents :
        AgentResponse(d, k[1], k[2], a, c)
  \/ \E d \in D : RoundComplete(d)
  \/ \E data \in StoredDebates : loadDebate(data)

StatusNext(D) ==
  \/ \E d \in D : DebateComplete(d)
  \/ \E d \in D, m \in ErrorTexts : DebateError(d, m)
  \/ handleCancel

(* Spec: the audio queue of the active decision, get_decision resolved *)
Init ==
  /\ decisionId = "d1"
  /\ isDebating = FALSE
  /\ hookIsDebating = FALSE
  /\ loadDecisionPending = FALSE
  /\ InitQueue
  /\ InitMerger
  /\ InitIdle
Next ==
  /\ AudioNext({decisionId})
  /\ Bounded'
  /\ UNCHANGED <<mergerVars, seenRounds, scenarioVars, steps, videoVars, barVars, subVars>>
Spec == Init /\ [][Next]_vars

(* SpecMerger: the token / response stream of a DebateView mounted while debating *)
InitM ==
  /\ decisionId = "d1"
  /\ isDebating = TRUE
  /\ hookIsDebating = isDebating
  /\ loadDecisionPending = FALSE
  /\ InitQueue
  /\ InitMerger
  /\ InitIdle
NextM ==
  /\ MergerNext({decisionId})
  /\ UNCHANGED <<decisionId, hookIsDebating, loadDecisionPending, queueVars, timers,
                 maxStarted, scenarioVars, steps, videoVars, barVars, subVars>>
SpecMerger == InitM /\ [][NextM]_vars

(* SpecAll: every listener of the view, events of any decision, at most MaxSteps steps *)
InitAll ==
  /\ decisionId = "d1"
  /\ isDebating \in BOOLEAN
  /\ hookIsDebating = isDebating
  /\ loadDecisionPending = TRUE
  /\ InitQueue
  /\ InitMerger
  /\ InitIdle
NextAll ==
  /\ steps < MaxSteps
  /\ steps' = steps + 1
  /\ UNCHANGED <<scenarioVars, videoVars, barVars, subVars>>
  /\ \/ AudioNext(Decisions) /\ UNCHANGED <<mergerVars, seenRounds>>
     \/ (\E b \in BOOLEAN : loadDecision(b)) /\ UNCHANGED <<mergerVars, seenRounds>>
     \/ \E d \in Decisions : SelectDecision(d)
     \/ /\ MergerNext(Decisions) \/ StatusNext(Decisions)
        /\ UNCHANGED <<decisionId, hookIsDebating, loadDecisionPending, queueVars, timers,
                       maxStarted>>
SpecAll == InitAll /\ [][NextAll]_vars

(* SpecScenario: a freshly reset queue receives a script of three segment events;  *)
(* every playback runs until its ended or error callback, nobody pauses.          *)
Ready(i) == [type |-> "ready", idx |-> i]
Failed(i) == [type |-> "failed", idx |-> i]
SegmentEvents == {Ready(i) : i \in 0..2} \cup {Failed(i) : i \in 0..2}
Scripts == {sq \in [1..3 -> SegmentEvents] : Cardinality({sq[1], sq[2], sq[3]}) = 3}
           \cup {sq \in [1..3 -> {Ready(i) : i \in 1..3}] :
                    Cardinality({sq[1], sq[2], sq[3]}) = 3}

InitS ==
  /\ decisionId = "d1"
  /\ isDebating = TRUE
  /\ hookIsDebating = TRUE
  /\ loadDecisionPending = FALSE
  /\ InitQueue
  /\ InitMerger
  /\ InitVideoIdle
  /\ InitBarIdle
  /\ InitSubs
  /\ script \in Scripts
  /\ scenario = script
  /\ startLog = <<>>
  /\ lastOp = InitOp
  /\ steps = 0

Deliver ==
  /\ script # <<>>
  /\ script' = Tail(script)
  /\ IF Head(script).type = "ready"
     THEN \E a \in SegAgents : SegmentAudioReady(decisionId, Head(script).idx, a)
     ELSE SegmentAudioError(decisionId, Head(script).idx)

Playback ==
  /\ handleEnded \/ handleError \/ PlayResolved \/ \E b \in BOOLEAN : TimerFire(b)
  /\ UNCHANGED script

NextS ==
  /\ Deliver \/ Playback
  /\ startLog' = IF lastOp'.start # NoStart THEN Append(startLog, lastOp'.start)
                 ELSE startLog
  /\ UNCHANGED <<mergerVars, seenRounds, scenario, steps, videoVars, barVars, subVars>>

SpecScenario ==
  /\ InitS /\ [][NextS]_vars
  /\ WF_vars(NextS /\ Deliver)
  /\ WF_vars(NextS /\ PlayResolved)
  /\ WF_vars(NextS /\ (handleEnded \/ handleError))
  /\ WF_vars(NextS /\ \E b \in BOOLEAN : TimerFire(b))

(* SpecVideo: the export dialog of a manifest of at most MaxSegments segments; *)
(* the first segment may lack its audio file                                   *)
InitV ==
  /\ decisionId = "d1"
  /\ isDebating = FALSE
  /\ hookIsDebating = FALSE
  /\ loadDecisionPending = FALSE
  /\ InitQueue
  /\ InitMerger
  /\ script = <<>>
  /\ scenario = <<>>
  /\ startLog = <<>>
  /\ lastOp = InitOp
  /\ steps = 0
  /\ \E m \in Manifests, missing \in BOOLEAN :
       manifest = IF missing /\ Len(m) > 0 THEN [m EXCEPT ![1].audio_file = ""] ELSE m
  /\ fps \in FpsValues
  /\ videoPhase = "idle"
  /\ previewTimeline = <<>>
  /\ previewTotal = 0
  /\ cliTimeline = <<>>
  /\ cliTotal = 0
  /\ InitBarIdle
  /\ InitSubs
NextV ==
  /\ RenderPreview \/ RenderExport
  /\ UNCHANGED <<audioVars, mergerVars, seenRounds, scenarioVars, lastOp, steps, barVars, subVars>>
SpecVideo == InitV /\ [][NextV]_vars

InitP ==
  /\ decisionId = "d1"
  /\ isDebating = FALSE
  /\ hookIsDebating = FALSE
  /\ loadDecisionPending = FALSE
  /\ InitQueue
  /\ InitMerger
  /\ script = <<>>
  /\ scenario = <<>>
  /\ startLog = <<>>
  /\ lastOp = InitOp
  /\ steps = 0
  /\ InitVideoIdle
  /\ props \in Props
  /\ (props.fixedExchangeCount # NoFixed /\ props.currentRound = 2)
       => props.currentExchange <= props.fixedExchangeCount
  /\ width = progress(props)
  /\ InitSubs
NextP ==
  /\ RoundAdvanced \/ RunEnded
  /\ UNCHANGED <<audioVars, mergerVars, seenRounds, scenarioVars, lastOp, steps, videoVars,
                 subVars>>
SpecProgress == InitP /\ [][NextP]_vars

InitL ==
  /\ decisionId = "d1"
  /\ isDebating = FALSE
  /\ hookIsDebating = FALSE
  /\ loadDecisionPending = FALSE
  /\ InitQueue
  /\ InitMerger
  /\ InitIdle
NextL ==
  /\ \/ \E l \in Listeners : ListenResolved(l)
     \/ \E o \in Owners : Cleanup(o)
  /\ UNCHANGED <<audioVars, mergerVars, seenRounds, scenarioVars, lastOp, steps, videoVars,
                 barVars>>
SpecListeners == InitL /\ [][NextL]_vars

(* ======================= claims ======================= *)
IsPrefix(p, sq) == Len(p) <= Len(sq) /\ \A i \in 1..Len(p) : p[i] = sq[i]

RECURSIVE FirstStarts(_)
(* the indices of a start log in the order of their first start *)
FirstStarts(log) ==
  IF log = <<>> THEN <<>>
  ELSE LET before == FirstStarts(SubSeq(log, 1, Len(log) - 1))
           x == log[Len(log)]
       IN IF \E i \in 1..Len(before) : before[i] = x THEN before ELSE Append(before, x)

(* C1: between two resets every start of a playback is for an index above every  *)
(* index started before (the started indices are strictly ascending).            *)
C1_AscendingStarts ==
  [][lastOp'.start # NoStart => lastOp'.start > maxStarted]_vars

Script312 == <<Ready(3), Ready(1), Ready(2)>>
Script201 == <<Ready(2), Ready(0), Ready(1)>>
Settled == script = <<>> /\ TimerCount = 0 /\ audioPhase \notin Audible

Scripts0f2 ==
  {sq \in Scripts : {sq[1], sq[2], sq[3]} = {Ready(0), Failed(1), Ready(2)}}

(* C3: tryPlayNext never starts an index that is in the failed set; with 0 ready, *)
(* 1 failed, 2 ready in any order, 1 is never started, 0 is played before 2 and   *)
(* never after it, and both have been played once the pointer has passed them.    *)
C3_SkipsFailed ==
  /\ lastOp.via = "tryPlayNext" => lastOp.start \notin failedSegments
  /\ scenario \in Scripts0f2 =>
       /\ \A i \in 1..Len(startLog) : startLog[i] # 1
       /\ \A i, j \in 1..Len(startLog) : i < j => startLog[i] <= startLog[j]
       /\ IsPrefix(FirstStarts(startLog), <<0, 2>>)
       /\ nextToPlay >= 3 => FirstStarts(startLog) = <<0, 2>>

C3_Witness ==
  scenario \in Scripts0f2 /\ nextToPlay >= 3 /\ 1 \in failedSegments
  /\ FirstStarts(startLog) = <<0, 2>>

(* C4: between two resets nextToPlay never decreases, and no playback is started *)
(* for an index below nextToPlay.                                                *)
C4_NoReplay ==
  [][/\ nextToPlay' >= nextToPlay \/ Render
     /\ lastOp'.start # NoStart => lastOp'.start >= nextToPlay']_vars

QueueIsReset ==
  /\ nextToPlay = 0
  /\ readySegments = <<>>
  /\ failedSegments = {}
  /\ ~userPaused
  /\ ~isPlaying

(* C5: after a debate-started event for the active decision, once React has      *)
(* rendered, the pointer is 0, the ready map and failed set are empty, the        *)
(* user-paused flag is cleared and isPlaying is false.                            *)
C5_ResetAfterStarted ==
  (lastOp.op = "debate-started" /\ lastOp.match /\ hookIsDebating = isDebating)
    => QueueIsReset

(* C6: an event whose decision id differs from the active one leaves the rounds, *)
(* streaming messages, current round, running flag, error, ready map, failed set, *)
(* pointer, playback, timers and debating flag unchanged.                        *)
C6_ForeignIgnored ==
  [][~lastOp'.match =>
       UNCHANGED <<mergerVars, queueVars, timers, isDebating, hookIsDebating>>]_vars

C6_Witness ==
  ~lastOp.match /\ (readySegments # <<>> \/ streamingMessages # <<>> \/ rounds # <<>>)

(* C7: a turn-finalized event removes the streaming message of its key, keeps the *)
(* other streaming messages, and appends exactly one entry holding the event's    *)
(* content, whatever was accumulated from tokens.                                 *)
C7_Finalize ==
  [][\A k \in RoundKeys, a \in Agents, c \in Contents :
       AgentResponse(decisionId, k[1], k[2], a, c) =>
         /\ ~HasStreaming(streamingMessages', k[1], k[2], a)
         /\ streamingMessages' = SelectSeqBy(streamingMessages, k[1], k[2], a)
         /\ rounds' = Append(rounds, Entry(k[1], k[2], a, c))]_vars

C7_Witness ==
  /\ loadDebatePending
  /\ rounds = <<Entry(2, 1, "a", <<"y">>)>>
  /\ streamingMessages = <<>>
  /\ currentRound = 2

GroupLeq(a, b) ==
  \/ a.roundNumber < b.roundNumber
  \/ a.roundNumber = b.roundNumber /\ a.exchangeNumber <= b.exchangeNumber

(* C8: the display groups are sorted by (round, exchange) ascending and every     *)
(* group of round 99 comes after every group of another round.                    *)
C8_Sorted ==
  LET g == mergedGroups
  IN \A i \in 1..Len(g), j \in 1..Len(g) :
       i < j => /\ GroupLeq(g[i], g[j])
                /\ g[i].roundNumber = 99 => g[j].roundNumber = 99

C8_Witness ==
  /\ Len(mergedGroups) = 3
  /\ rounds # <<>> /\ rounds[1].round_number = 99
  /\ streamingMessages # <<>>
  /\ mergedGroups[3].roundNumber = 99

(* C9 as stated: currentRound is the maximum round carried by the token and      *)
(* turn-finalized events seen so far.                                            *)
C9_MaxSeen ==
  seenRounds # {} => currentRound = MaxRound(seenRounds)

(* C10: a debate-error event marks the stream non-running and sets the error to   *)
(* its message iff the message is not the cancellation text; a debate-complete    *)
(* event marks it non-running and leaves the error alone.                         *)
C10_ErrorHandling ==
  [][/\ \A m \in ErrorTexts :
          DebateError(decisionId, m) =>
            /\ ~debateRunning'
            /\ error' = m <=> m # Cancelled
            /\ m = Cancelled => error' = error
     /\ DebateComplete(decisionId) => ~debateRunning' /\ error' = error]_vars

C10_Witness ==
  lastOp.op = "debate-error" /\ lastOp.match /\ error = "boom" /\ ~debateRunning
(* the (round, exchange, duration_ms) of the manifest's segments *)
ManifestShape == [i \in 1..Len(manifest) |->
                    <<manifest[i].round, manifest[i].exchange, manifest[i].duration_ms>>]

(* C11: for the segments (1,1,5000), (1,1,3000), (2,1,4000) at 30 fps the timeline *)
(* has exactly one transition, between the second and the third message, the       *)
(* messages start at frames 0, 150 and 300, and the total is the end frame of the  *)
(* last message plus 30.                                                           *)
C11_Example ==
  (/\ videoPhase # "idle"
   /\ fps = 30
   /\ ManifestShape = <<<<1, 1, 5000>>, <<1, 1, 3000>>, <<2, 1, 4000>>>>)
  => LET t == previewTimeline
     IN /\ Len(t) = 4
        /\ <<t[1].type, t[2].type, t[3].type, t[4].type>>
             = <<"message", "message", "transition", "message">>
        /\ <<t[1].startFrame, t[2].startFrame, t[4].startFrame>> = <<0, 150, 300>>
        /\ t[3].durationFrames = 60
        /\ previewTotal = t[4].startFrame + t[4].durationFrames + 30

C11_Witness ==
  /\ videoPhase = "preview"
  /\ fps = 30
  /\ ManifestShape = <<<<1, 1, 5000>>, <<1, 1, 3000>>, <<2, 1, 4000>>>>
  /\ previewTotal = 450

(* C12: for every segment list, also with segments of 0 ms, the first entry starts *)
(* at frame 0, every entry ends where the next one starts, and the start frames    *)
(* are strictly increasing.                                                        *)
C12_Contiguous ==
  videoPhase # "idle" =>
    LET t == previewTimeline
    IN /\ Len(t) > 0 => t[1].startFrame = 0
       /\ \A i \in 1..(Len(t) - 1) :
            /\ t[i].startFrame + t[i].durationFrames = t[i + 1].startFrame
            /\ t[i].startFrame < t[i + 1].startFrame

entryRound(e) == IF e.type = "transition" THEN e.roundNumber ELSE e.segment.round
entryExchange(e) == IF e.type = "transition" THEN e.exchangeNumber ELSE e.segment.exchange

(* C13: the timeline of the preview props and the timeline of the batch-export     *)
(* props, which differ only in audioFilePath, agree at every position on type,     *)
(* startFrame, durationFrames, round and exchange, and on the total frame count.   *)
C13_PreviewEqualsExport ==
  videoPhase = "export" =>
    /\ Len(previewTimeline) = Len(cliTimeline)
    /\ \A i \in 1..Len(previewTimeline) :
         LET a == previewTimeline[i]
             b == cliTimeline[i]
         IN /\ a.type = b.type
            /\ a.startFrame = b.startFrame
            /\ a.durationFrames = b.durationFrames
            /\ entryRound(a) = entryRound(b)
            /\ entryExchange(a) = entryExchange(b)
    /\ previewTotal = cliTotal

C13_Witness ==
  /\ videoPhase = "export"
  /\ Len(previewTimeline) = 5
  /\ previewTimeline # cliTimeline
  /\ previewTimeline[1].segment.audioFilePath = staticPath("")
  /\ previewTotal = cliTotal
(* C14: a ready event for an index that has already been played or is playing    *)
(* starts, restarts or interrupts no playback and leaves the pointer unchanged.   *)
C14_RepeatedReadyIgnored ==
  [][\A i \in Indices, a \in SegAgents :
       (/\ SegmentAudioReady(decisionId, i, a)
        /\ \/ audioSrc = i /\ audioPhase \in Audible
           \/ i < nextToPlay /\ i \in DOMAIN readySegments /\ i \notin failedSegments)
       => /\ lastOp'.start = NoStart
          /\ UNCHANGED <<nextToPlay, audioSrc, audioPhase>>]_vars

(* C15: stop() stops the audio, sets the user-paused flag, reports isPlaying      *)
(* false and leaves nextToPlay, the ready map and the failed set unchanged.       *)
C15_StopFrame ==
  [][Stop => /\ audioPhase' \notin Audible
             /\ userPaused'
             /\ ~isPlaying'
             /\ UNCHANGED <<nextToPlay, readySegments, failedSegments>>]_vars

C15_Witness ==
  /\ lastOp.op = "user"
  /\ userPaused /\ audioSrc = NoSrc /\ audioPhase = "empty"
  /\ nextToPlay > 0 /\ readySegments # <<>> /\ failedSegments # {}

(* C16: togglePause while playing pauses the audio and leaves nextToPlay, the     *)
(* ready map and the failed set unchanged; togglePause while not playing clears   *)
(* the user-paused flag and continues the loaded segment, which is the one at     *)
(* nextToPlay, or runs tryPlayNext when nothing is loaded; nextToPlay never       *)
(* changes.                                                                       *)
C16_TogglePauseFrame ==
  [][TogglePause =>
       IF isPlayingRef
       THEN /\ audioPhase' \notin Audible
            /\ UNCHANGED <<nextToPlay, readySegments, failedSegments>>
       ELSE /\ ~userPaused'
            /\ nextToPlay' = nextToPlay
            /\ audioSrc # NoSrc => audioSrc' = audioSrc /\ audioSrc = nextToPlay]_vars

(* C17: while the user-paused flag is set, no ready event, failed event, ended or *)
(* error callback or debounce timer starts a playback.                            *)
C17_PausedStartsNothing ==
  [][(userPaused /\ lastOp'.op \in {"segment", "audio"})
       => /\ lastOp'.start = NoStart
          /\ audioPhase' \in Audible => audioPhase \in Audible]_vars

C17_Witness ==
  /\ userPaused
  /\ lastOp.op = "audio"
  /\ TimerCount = 0
  /\ nextToPlay \in DOMAIN readySegments
  /\ nextToPlay \notin failedSegments
  /\ audioPhase \notin Audible
Started(k) == \E i \in 1..Len(startLog) : startLog[i] = k
Delivered(e) == \E i \in 1..Len(scenario) : scenario[i] = e

(* C18: every ended and every error callback advances nextToPlay by exactly one   *)
(* and arms one debounce timer; when the segment at the new pointer is ready (and *)
(* no failure event for it arrives) and the user has not paused, its playback     *)
(* eventually starts.                                                             *)
C18_AdvanceAndContinue ==
  /\ [][(handleEnded \/ handleError)
          => nextToPlay' = nextToPlay + 1 /\ TimerCount' = TimerCount + 1]_vars
  /\ \A p \in 1..3 :
       (/\ nextToPlay = p /\ TimerCount > 0 /\ ~userPaused
        /\ p \in DOMAIN readySegments /\ p \notin failedSegments)
       ~> (Started(p) \/ p \in failedSegments)

C18_Witness ==
  /\ lastOp.op = "audio" /\ lastOp.start = nextToPlay
  /\ nextToPlay >= 1
  /\ TimerCount = 0
  /\ Len(startLog) = 2

(* C19: a local failure of the loaded segment, an error callback or a rejected    *)
(* attempt to start it, is handled like the end of its playback: the pointer      *)
(* advances past the segment and the debounce timer continues the playback.       *)
C19_FailureAdvances ==
  [][(handleError \/ (PlayRejected /\ audioPhase = "starting"))
       => nextToPlay' = nextToPlay + 1 /\ TimerCount' = TimerCount + 1]_vars

(* C20: with fair scheduling and no pause or stop, if segment k is reported ready *)
(* and never failed and every index below k is reported ready or failed, then     *)
(* segment k is eventually played, in every arrival order.                        *)
(* Stated for the end of a run: every event delivered, no timer pending, nothing *)
(* playing any more.                                                              *)
C20_FailedNeverBlocks ==
  \A k \in 0..2 :
    (/\ Settled
     /\ Delivered(Ready(k)) /\ ~Delivered(Failed(k))
     /\ \A i \in 0..(k - 1) : Delivered(Ready(i)) \/ Delivered(Failed(i)))
    => Started(k)
IsMessage(e) == e.type = "message"
SameRoundKey(a, b) == a.round = b.round /\ a.exchange = b.exchange

(* C28: the timeline holds one message entry per segment, in input order; a      *)
(* transition stands immediately before exactly the segments whose (round,        *)
(* exchange) differs from the preceding segment's, never before the first; each   *)
(* transition has the fixed duration and carries the key of the segment after it. *)
C28_TimelineShape ==
  videoPhase # "idle" =>
    LET t == previewTimeline
        segs == previewSegments(manifest)
        msgs == SelectSeq(t, IsMessage)
    IN /\ [i \in 1..Len(msgs) |-> msgs[i].segment] = segs
       /\ Len(t) > 0 => IsMessage(t[1])
       /\ \A i \in 1..Len(t) :
            IF IsMessage(t[i])
            THEN (i > 1 /\ IsMessage(t[i - 1]))
                   => SameRoundKey(t[i - 1].segment, t[i].segment)
            ELSE /\ i > 1 /\ i < Len(t)
                 /\ IsMessage(t[i - 1]) /\ IsMessage(t[i + 1])
                 /\ ~SameRoundKey(t[i - 1].segment, t[i + 1].segment)
                 /\ t[i].durationFrames = ROUND_TRANSITION_DURATION_FRAMES
                 /\ t[i].roundNumber = t[i + 1].segment.round
                 /\ t[i].exchangeNumber = t[i + 1].segment.exchange

C28_Witness ==
  /\ videoPhase = "preview"
  /\ Len(manifest) = 3
  /\ manifest[1].round = 2 /\ manifest[1].exchange = 1
  /\ manifest[2].round = 2 /\ manifest[2].exchange = 2
  /\ manifest[3].round = 2 /\ manifest[3].exchange = 2
  /\ Len(previewTimeline) = 4
  /\ previewTimeline[2].type = "transition"

(* C29: the durationFrames of every message entry is the smallest integer d with *)
(* d * 1000 >= durationMs * fps.                                                  *)
C29_ExactCeiling ==
  videoPhase # "idle" =>
    \A i \in 1..Len(previewTimeline) :
      LET e == previewTimeline[i]
      IN IsMessage(e) =>
           /\ e.durationFrames * 1000 >= e.segment.durationMs * fps
           /\ (e.durationFrames - 1) * 1000 < e.segment.durationMs * fps

(* C30: calculateTotalFrames is the end frame of the last timeline entry plus fps *)
(* for a non-empty segment list and 1 for the empty list.                         *)
C30_TotalFrames ==
  videoPhase # "idle" =>
    LET t == previewTimeline
    IN previewTotal = IF manifest = <<>> THEN 1
                      ELSE t[Len(t)].startFrame + t[Len(t)].durationFrames + fps

C30_Witness ==
  /\ videoPhase = "preview"
  /\ fps = 60
  /\ Len(manifest) = 2
  /\ manifest[2].duration_ms = 3000
  /\ previewTotal = previewTimeline[Len(previewTimeline)].startFrame + 180 + 60
(* C22: after a debate-error event of the active decision with a message other    *)
(* than the cancellation text, token and turn-finalized events of that decision   *)
(* change neither the finalized sequence nor the streaming messages nor the       *)
(* current round.                                                                 *)
C22_ErrorHaltsIngestion ==
  [][error # NoError =>
       \A k \in RoundKeys, a \in Agents :
         /\ \A t \in Tokens :
              AgentToken(decisionId, k[1], k[2], a, t)
                => UNCHANGED <<rounds, streamingMessages, currentRound>>
         /\ \A c \in Contents :
              AgentResponse(decisionId, k[1], k[2], a, c)
                => UNCHANGED <<rounds, streamingMessages, currentRound>>]_vars

(* C25: the finalized sequence is append-only: under every interleaving of        *)
(* turn-finalized events with the load of the stored rounds, every step keeps the *)
(* entries it had, unchanged and in order, at the front of the sequence.          *)
C25_AppendOnly ==
  [][IsPrefix(rounds, rounds')]_vars

(* C26: no two streaming messages share a (round, exchange, agent) key, and no    *)
(* streaming message exists for the key of a finalized entry.                      *)
C26_StreamingUntilFinalized ==
  /\ \A i, j \in 1..Len(streamingMessages) :
       (i # j) => ~SameKey(streamingMessages[i], streamingMessages[j].round_number,
                           streamingMessages[j].exchange_number,
                           streamingMessages[j].agent)
  /\ \A i \in 1..Len(rounds) :
       ~HasStreaming(streamingMessages, rounds[i].round_number,
                     rounds[i].exchange_number, rounds[i].agent)

RECURSIVE entriesOfKey(_, _, _)
entriesOfKey(rs, r, e) ==
  IF rs = <<>> THEN <<>>
  ELSE IF SameGroup(Head(rs), r, e) THEN <<Head(rs)>> \o entriesOfKey(Tail(rs), r, e)
       ELSE entriesOfKey(Tail(rs), r, e)

(* C27: in the view every (round, exchange) key has at most one group, the group  *)
(* holds all finalized entries of its key, and every streaming message is         *)
(* attached to exactly one group.                                                 *)
C27_OneGroupPerKey ==
  LET g == mergedGroups
  IN /\ \A i, j \in 1..Len(g) :
          (i # j) => ~(/\ g[i].roundNumber = g[j].roundNumber
                       /\ g[i].exchangeNumber = g[j].exchangeNumber)
     /\ \A i \in 1..Len(g) :
          g[i].entries = entriesOfKey(rounds, g[i].roundNumber, g[i].exchangeNumber)
     /\ \A m \in 1..Len(streamingMessages) :
          Cardinality({i \in 1..Len(g) :
                         \E n \in 1..Len(g[i].streamingEntries) :
                            g[i].streamingEntries[n] = streamingMessages[m]}) = 1
SchedulerIdle ==
  /\ ~isPlaying /\ audioPhase \notin Audible
  /\ ~userPaused
  /\ nextToPlay \notin DOMAIN readySegments
  /\ nextToPlay \notin failedSegments
  /\ TimerCount = 0
  /\ hookIsDebating = isDebating

(* C21: whenever the scheduler is idle and the debate has finished, the reported  *)
(* state is the terminal idle state: current agent and current segment cleared.   *)
C21_TerminalIdle ==
  (SchedulerIdle /\ ~isDebating) => (currentAgent = NoAgent /\ currentSegment = NoSegment)

TornDown ==
  /\ audioPhase \notin Audible /\ audioSrc = NoSrc /\ ~isPlaying
  /\ readySegments = <<>> /\ failedSegments = {} /\ nextToPlay = 0

(* C23: when the active decision identifier changes, the playback is stopped and  *)
(* the loaded audio, the ready map, the failed set and the pointer of the previous *)
(* decision are discarded before any event of the new decision is processed.      *)
C23_SwitchTearsDown ==
  lastOp.op = "select" => TornDown

(* C24: right after a cancellation, by the user or by a debate-error event with   *)
(* the cancellation text, no audio is playing and the stream is not running.      *)
C24_CancelStopsAudio ==
  (\/ lastOp.op = "cancel"
   \/ lastOp.op = "debate-error" /\ lastOp.match /\ error = NoError)
  => (~debateRunning /\ audioPhase \notin Audible /\ ~isPlaying)
Hundred == Frac(100, 1)

(* C31: in a moderator-directed debate the percentage is strictly below 100 while *)
(* the debate is running, whatever the round and exchange, and is 100 exactly     *)
(* when the debate is no longer running.                                          *)
C31_ModeratorBelowHundred ==
  props.moderatorDirected =>
    /\ props.isRunning => FLess(width, Hundred)
    /\ ~props.isRunning => FEq(width, Hundred)

C31_Witness ==
  /\ props.moderatorDirected /\ props.isRunning
  /\ props.currentRound = 2 /\ props.currentExchange >= 58
  /\ FEq(width, Frac(95, 1))

InRange(f) == FLeq(Frac(0, 1), f) /\ FLeq(f, Hundred)

(* C39: for every round, exchange, total round count and mode the percentage of   *)
(* the bar lies between 0 and 100 inclusive.                                      *)
C39_PercentInRange ==
  InRange(width) /\ InRange(progressByRound(props))

(* C40: while the debate is running the percentage never decreases when the       *)
(* debate advances to its next round or exchange, in either mode.                 *)
C40_Monotone ==
  [][RoundAdvanced => FLeq(width, width')]_vars
IsSlice(es, sq) ==
  \E i \in 1..(Len(sq) - Len(es) + 1) : \A k \in 1..Len(es) : sq[i + k - 1] = es[k]

GroupsKeepOrder ==
  LET unsorted == groupRounds(rounds)
  IN \A i \in 1..Len(mergedGroups) :
       LET g == mergedGroups[i]
       IN g.entries # <<>> =>
            /\ IsSlice(g.entries, rounds)
            /\ \E j \in 1..Len(unsorted) :
                 /\ unsorted[j].roundNumber = g.roundNumber
                 /\ unsorted[j].exchangeNumber = g.exchangeNumber
                 /\ unsorted[j].entries = g.entries

(* C32: a turn-finalized event appends its entry after the entries that arrived   *)
(* before it, every display group holds its entries in the order they have in     *)
(* rounds, and the sorted group list holds each group of groupRounds unchanged.   *)
C32_ArrivalOrderInGroups ==
  /\ []GroupsKeepOrder
  /\ [][(~ \E data \in StoredDebates : loadDebate(data)) => IsPrefix(rounds, rounds')]_vars

C32_Witness ==
  /\ Len(rounds) = 3
  /\ rounds[1].round_number = 2 /\ rounds[2].round_number = 2 /\ rounds[3].round_number = 1
  /\ rounds[1].exchange_number = rounds[2].exchange_number
  /\ rounds[1].agent # rounds[2].agent
  /\ Len(mergedGroups) = 2
  /\ mergedGroups[2].entries = <<rounds[1], rounds[2]>>
(* C33: once the cleanup of a component has run and its listen() calls have       *)
(* resolved, no listener of the component is still subscribed.                    *)
C33_ReleasedAfterCleanup ==
  \A o \in Owners :
    (cleanedUp[o] /\ \A e \in EventsOf(o) : listeners[<<o, e>>] # "pending")
      => \A e \in EventsOf(o) : listeners[<<o, e>>] # "subscribed"
(* C34: nextToPlay moves past an index only if the index is in the failed set or  *)
(* the step is the ended or error callback of the audio loaded for that index.    *)
C34_NoSkip ==
  [][\A i \in Indices :
       (nextToPlay <= i /\ i < nextToPlay') =>
          \/ i \in failedSegments'
          \/ /\ handleEnded \/ handleError
             /\ audioSrc = i]_vars
(* C35: the reported isPlaying flag is true exactly when the audio element is     *)
(* playing a segment.                                                             *)
C35_IsPlayingExact ==
  isPlaying <=> audioPhase \in Audible
(* C36: whenever isPlaying is true, currentSegmentIndex equals nextToPlay,        *)
(* currentSegment.index equals currentSegmentIndex and currentAgent is the agent  *)
(* of the ready segment stored at that index.                                     *)
C36_CurrentIsAtPointer ==
  isPlaying =>
    /\ currentSegmentIndex = nextToPlay
    /\ currentSegment # NoSegment
    /\ currentSegment.index = currentSegmentIndex
    /\ nextToPlay \in DOMAIN readySegments
    /\ currentAgent = readySegments[nextToPlay]
(* C37: a segment-audio-ready event delivered after the debate-started event and  *)
(* before the reset effect has run is not discarded by the reset: once the reset  *)
(* has taken effect its index is in the ready map, or the pointer is past it, or  *)
(* its audio is playing.                                                          *)
C37_ReadyKeptByReset ==
  [][(Render /\ liveAudioArgument /\ lastOp.match /\ lastOp.ready # NoStart)
       => \/ lastOp.ready \in DOMAIN readySegments'
          \/ nextToPlay' > lastOp.ready
          \/ audioSrc' = lastOp.ready /\ audioPhase' \in Audible]_vars
(* C38: after a debate-started event for the active decision, and until the next  *)
(* debate-complete, debate-error or cancel, the running flag of the debate view   *)
(* is true; stated for the states in which debate-started is the last event.      *)
C38_RunningAfterStarted ==
  (lastOp.op = "debate-started" /\ lastOp.match) => debateRunning
====
